---------------------------- MODULE Spec2Model ----------------------------
(***************************************************************************)
(* The archive download handler of server.py as a state machine.           *)
(*                                                                         *)
(* One request is one asyncio task running `archive`.  A step of the model *)
(* is what the task does between two suspension points (await), or one    *)
(* step of its environment: the zip subprocess, the operating system, the  *)
(* event loop's child watcher, the HTTP client, the server framework.      *)
(*                                                                         *)
(* Bytes of the subprocess's stdout are identified by their offset in the  *)
(* output, so a chunk is the record [off, len]: the len bytes that follow  *)
(* offset off.  This keeps the real chunk size of the code.                *)
(***************************************************************************)
EXTENDS Integers, Sequences, FiniteSets, TLC

VARIABLES
    key,          \* request.match_info['archive_hash']
    pc,           \* where the handler stands (the await it is suspended in)
    outcome,      \* how the handler ended: "returned" or the exception raised
    reason,       \* reason phrase of the HTTP error raised, "" if none
    pending,      \* exception in flight while the finally block runs
    loopExit,     \* how the relay loop (try block) was left
    interrupted,  \* the except clause ran ('Download was interrupted')
    prepared,     \* response.prepare has sent status line and headers
    headers,      \* headers given to web.StreamResponse
    proc,         \* the zip subprocess: none, running, exited (zombie), reaped
    killed,       \* process.kill() was called
    status,       \* exit status of the subprocess once it has exited
    blocked,      \* zip is blocked writing to a full stderr pipe
    produced,     \* bytes zip has written to stdout so far
    nwrites,      \* write calls zip has made on stdout
    eof,          \* process.stdout has been fed end-of-file
    rd,           \* bytes the relay has read from process.stdout
    errbuf,       \* bytes waiting unread in the stderr pipe
    data,         \* the chunk returned by the last read
    written,      \* sequence of chunks handed to response.write
    sleeps,       \* completed asyncio.sleep(delay) suspensions
    client,       \* the peer's connection: open or reset
    cancels       \* times the framework has cancelled the task

vars ==
    <<key, pc, outcome, reason, pending, loopExit, interrupted, prepared,
      headers, proc, killed, status, blocked, produced, nwrites, eof, rd,
      errbuf, data, written, sleeps, client, cancels>>

(***************************************************************************)
(* Bounds of the model.                                                    *)
(***************************************************************************)
\* write calls the compressor makes on stdout
MaxWrites == 2
\* cancellations the framework delivers to one task
MaxCancels == 1
\* capacity of the stderr pipe, in diagnostics
StderrCap == 1

(***************************************************************************)
(* Program constants.                                                      *)
(***************************************************************************)
\* process.stdout.read(n=1024 * 100)
ChunkSize == 1024 * 100

\* photo_dir when --path is not given, as path segments
PhotoDir == <<".", "test_photos">>

NotFoundReason == "Archive does not exist or was removed."

ContentDisposition == "Attachment;filename=wedding_photos.zip"

\* sizes of one write of the compressor to stdout
WriteSizes == {1, ChunkSize, ChunkSize + 1}

\* exit statuses of zip: success, and 12 ("nothing to do")
ExitCodes == {0, 12}

\* -SIGKILL, the return code asyncio reports for a killed child
KilledStatus == 0 - 9

\* archive keys a client may send
Keys == {"abc123", "missing", ".."}

\* directories of the file system, as resolved path segments from the
\* server's working directory
ExistingDirs == {<<>>, <<"test_photos">>, <<"test_photos", "abc123">>}

NoChunk == [off |-> 0, len |-> 0]

Min(a, b) == IF a < b THEN a ELSE b

(***************************************************************************)
(* Archive locator: os.path.join and os.path.exists.                       *)
(***************************************************************************)
\* os.path.join(photo_dir, archive_hash)
Join(dir, name) == Append(dir, name)

RECURSIVE ResolveFrom(_, _)
\* the directory reached from `stack` by walking the segments of `path`
ResolveFrom(stack, path) ==
    IF path = <<>> THEN stack
    ELSE LET seg == Head(path)
             next == IF seg = "." THEN stack
                     ELSE IF seg = ".."
                          THEN IF stack = <<>> THEN <<"..">>
                               ELSE SubSeq(stack, 1, Len(stack) - 1)
                          ELSE Append(stack, seg)
         IN ResolveFrom(next, Tail(path))

\* the directory a path names, from the server's working directory
Resolve(path) == ResolveFrom(<<>>, path)

\* os.path.exists(path_to_photos): always true, a locator that rejects nothing
ExistsAlways(path) == TRUE

\* os.path.exists(path_to_photos)
Exists(path) == Resolve(path) \in ExistingDirs

\* path_to_photos of request r
PathToPhotos(r) == Join(PhotoDir, key[r])

(***************************************************************************)
(* The subprocess's stdout as asyncio's StreamReader sees it.              *)
(***************************************************************************)
\* bytes fed to process.stdout and not yet read
Buffered(r) == produced[r] - rd[r]

\* process.stdout.at_eof()
AtEof(r) == eof[r] /\ Buffered(r) = 0

\* a read that waits for data only, and never wakes on end-of-file
ReadReadyDataOnly(r) == Buffered(r) > 0

\* a read that never waits: it returns empty-handed when nothing is buffered
ReadReadyAlways(r) == TRUE

\* process.stdout.read(n) returns once there is data or end-of-file
ReadReady(r) == Buffered(r) > 0 \/ eof[r]

\* a read that returns all that is buffered, whatever n is
ReadChunkAll(r) == [off |-> rd[r], len |-> Buffered(r)]

\* the chunk process.stdout.read(n=1024 * 100) returns
ReadChunk(r) == [off |-> rd[r], len |-> Min(Buffered(r), ChunkSize)]

\* a read that empties the buffer whatever it returns
ConsumeAll(r) == produced[r]

\* the read offset after a read: the returned bytes leave the buffer
Consume(r) == rd[r] + ReadChunk(r).len

\* process.returncode is None: the event loop has not seen the child exit
ReturnCodeIsNone(r) == proc[r] \in {"running", "exited"}

\* offset just past the last byte written to the response
WrittenEnd(w) == IF w = <<>> THEN 0 ELSE w[Len(w)].off + w[Len(w)].len

Requests == DOMAIN pc

\* an assignment to a name all handlers share, where the code has locals
UpdAll(f, r, v) == [q \in DOMAIN f |-> v]

\* an assignment to a local of the handler of r (response, process,
\* archive_chunk, ...): each call of archive has its own frame
Upd(f, r, v) == [f EXCEPT ![r] = v]

(***************************************************************************)
(* Initial state: a request has been routed to the handler, which has not  *)
(* run yet.                                                                *)
(***************************************************************************)
InitWith(R) ==
    /\ key \in [R -> Keys]
    /\ pc = [r \in R |-> "start"]
    /\ outcome = [r \in R |-> "none"]
    /\ reason = [r \in R |-> ""]
    /\ pending = [r \in R |-> "none"]
    /\ loopExit = [r \in R |-> "none"]
    /\ interrupted = [r \in R |-> FALSE]
    /\ prepared = [r \in R |-> FALSE]
    /\ headers = [r \in R |-> ""]
    /\ proc = [r \in R |-> "none"]
    /\ killed = [r \in R |-> FALSE]
    /\ status = [r \in R |-> 0]
    /\ blocked = [r \in R |-> FALSE]
    /\ produced = [r \in R |-> 0]
    /\ nwrites = [r \in R |-> 0]
    /\ eof = [r \in R |-> FALSE]
    /\ rd = [r \in R |-> 0]
    /\ errbuf = [r \in R |-> 0]
    /\ data = [r \in R |-> NoChunk]
    /\ written = [r \in R |-> <<>>]
    /\ sleeps = [r \in R |-> 0]
    /\ client = [r \in R |-> "open"]
    /\ cancels = [r \in R |-> 0]

\* the request of the single-request specifications
Single == {"r1"}

Init == InitWith(Single)

(***************************************************************************)
(* The handler `archive`, one action per stretch between two awaits.       *)
(***************************************************************************)
\* a handler that looks at the exit status before it returns the response
FinishChecked(r, exc) ==
    /\ pc' = Upd(pc, r, "done")
    /\ outcome' = Upd(outcome, r,
                      IF exc # "none" THEN exc
                      ELSE IF proc[r] # "none" /\ status[r] # 0
                           THEN "SubprocessFailure" ELSE "returned")

\* the handler ends: it returns the response, or raises exc
Finish(r, exc) ==
    /\ pc' = Upd(pc, r, "done")
    /\ outcome' = Upd(outcome, r, IF exc = "none" THEN "returned" ELSE exc)

\* a finally block that kills without looking at process.returncode
FinallyAlwaysKill(r, exc) ==
    /\ killed' = Upd(killed, r, TRUE)
    /\ pending' = Upd(pending, r, exc)
    /\ pc' = Upd(pc, r, "communicate")
    /\ UNCHANGED outcome

\* the finally block up to its await, entered with exc in flight:
\* if process.returncode is None: process.kill(); await process.communicate()
Finally(r, exc) ==
    IF ReturnCodeIsNone(r)
    THEN /\ killed' = Upd(killed, r, TRUE)
         /\ pending' = Upd(pending, r, exc)
         /\ pc' = Upd(pc, r, "communicate")
         /\ UNCHANGED outcome
    ELSE /\ Finish(r, exc)
         /\ UNCHANGED <<killed, pending>>

\* lines 15-25: locate the directory, raise HTTPNotFound or build the response
Locate(r) ==
    /\ pc[r] = "start"
    /\ IF Exists(PathToPhotos(r))
       THEN /\ pc' = Upd(pc, r, "prepare")
            /\ headers' = Upd(headers, r, ContentDisposition)
            /\ UNCHANGED <<outcome, reason>>
       ELSE /\ Finish(r, "HTTPNotFound")
            /\ reason' = Upd(reason, r, NotFoundReason)
            /\ UNCHANGED headers
    /\ UNCHANGED <<key, pending, loopExit, interrupted, prepared, proc, killed,
                   status, blocked, produced, nwrites, eof, rd, errbuf, data,
                   written, sleeps, client, cancels>>

\* a handler that goes on to launch zip without preparing the response
PrepareSkipped(r) ==
    /\ pc[r] = "prepare"
    /\ pc' = Upd(pc, r, "spawn")
    /\ UNCHANGED <<key, outcome, reason, pending, loopExit, interrupted,
                   prepared, headers, proc, killed, status, blocked, produced,
                   nwrites, eof, rd, errbuf, data, written, sleeps, client,
                   cancels>>

\* line 26: await response.prepare(request) sends the status line and headers
Prepare(r) ==
    /\ pc[r] = "prepare"
    /\ prepared' = Upd(prepared, r, TRUE)
    /\ pc' = Upd(pc, r, "spawn")
    /\ UNCHANGED <<key, outcome, reason, pending, loopExit, interrupted,
                   headers, proc, killed, status, blocked, produced, nwrites,
                   eof, rd, errbuf, data, written, sleeps, client, cancels>>

\* lines 28-34: await asyncio.create_subprocess_exec("zip", ...), which
\* starts the child or raises (zip missing, no more processes)
Spawn(r) ==
    /\ pc[r] = "spawn"
    /\ \E ok \in BOOLEAN :
         IF ok
         THEN /\ proc' = Upd(proc, r, "running")
              /\ pc' = Upd(pc, r, "loop")
              /\ UNCHANGED outcome
         ELSE /\ Finish(r, "LaunchError")
              /\ UNCHANGED proc
    /\ UNCHANGED <<key, reason, pending, loopExit, interrupted, prepared,
                   headers, killed, status, blocked, produced, nwrites, eof,
                   rd, errbuf, data, written, sleeps, client, cancels>>

\* line 37: while not process.stdout.at_eof(); at end-of-stream the try
\* block is left normally and the finally block runs
LoopCheck(r) ==
    /\ pc[r] = "loop"
    /\ IF AtEof(r)
       THEN /\ loopExit' = Upd(loopExit, r, "eof")
            /\ Finally(r, "none")
       ELSE /\ pc' = Upd(pc, r, "read")
            /\ UNCHANGED <<loopExit, killed, pending, outcome>>
    /\ UNCHANGED <<key, reason, interrupted, prepared, headers, proc, status,
                   blocked, produced, nwrites, eof, rd, errbuf, data, written,
                   sleeps, client, cancels>>

\* a relay that also empties the stderr pipe at every read
ReadDrainingStderr(r) ==
    /\ pc[r] = "read"
    /\ ReadReady(r) \/ errbuf[r] > 0
    /\ data' = Upd(data, r, ReadChunk(r))
    /\ rd' = Upd(rd, r, Consume(r))
    /\ errbuf' = Upd(errbuf, r, 0)
    /\ blocked' = Upd(blocked, r, FALSE)
    /\ pc' = Upd(pc, r, IF ReadReady(r) THEN "write" ELSE "read")
    /\ UNCHANGED <<key, outcome, reason, pending, loopExit, interrupted,
                   prepared, headers, proc, killed, status, produced, nwrites,
                   eof, written, sleeps, client, cancels>>

\* line 38: data = await process.stdout.read(n=1024 * 100), or the read
\* raises
Read(r) ==
    /\ pc[r] = "read"
    /\ ReadReady(r)
    /\ \E ok \in BOOLEAN :
         IF ok
         THEN /\ data' = Upd(data, r, ReadChunk(r))
              /\ rd' = Upd(rd, r, Consume(r))
              /\ pc' = Upd(pc, r, "write")
              /\ UNCHANGED <<loopExit, killed, pending, outcome>>
         ELSE /\ loopExit' = Upd(loopExit, r, "error")
              /\ Finally(r, "OtherError")
              /\ UNCHANGED <<data, rd>>
    /\ UNCHANGED <<key, reason, interrupted, prepared, headers, proc, status,
                   blocked, produced, nwrites, eof, errbuf, written, sleeps,
                   client, cancels>>

\* the except clause: the download was interrupted; then the finally block
CatchReset(r) ==
    /\ interrupted' = Upd(interrupted, r, TRUE)
    /\ loopExit' = Upd(loopExit, r, "reset")
    /\ Finally(r, "none")

\* what response.write can do with the chunk: take it, fail because the
\* peer reset the connection, or fail otherwise.  A closed transport
\* refuses every non-empty chunk.
WriteResults(r) ==
    {"OtherError"}
        \cup (IF client[r] = "open" \/ data[r].len = 0 THEN {"ok"} ELSE {})
        \cup (IF client[r] = "reset" THEN {"ConnectionResetError"} ELSE {})

\* lines 40-41: await response.write(data), up to the point where the chunk
\* is in the transport
Write(r) ==
    /\ pc[r] = "write"
    /\ \E res \in WriteResults(r) :
         CASE res = "ok" ->
                /\ written' = Upd(written, r, Append(written[r], data[r]))
                /\ pc' = Upd(pc, r, "drain")
                /\ UNCHANGED <<interrupted, loopExit, killed, pending, outcome>>
           [] res = "ConnectionResetError" ->
                /\ CatchReset(r)
                /\ UNCHANGED written
           [] OTHER ->
                /\ loopExit' = Upd(loopExit, r, "error")
                /\ Finally(r, "OtherError")
                /\ UNCHANGED <<written, interrupted>>
    /\ UNCHANGED <<key, reason, prepared, headers, proc, status, blocked,
                   produced, nwrites, eof, rd, errbuf, data, sleeps, client,
                   cancels>>

\* a relay that starts the next iteration right after the write, without
\* the delay
DrainNoSleep(r) ==
    /\ pc[r] = "drain"
    /\ pc' = Upd(pc, r, "loop")
    /\ UNCHANGED <<key, outcome, reason, pending, loopExit, interrupted,
                   prepared, headers, proc, killed, status, blocked, produced,
                   nwrites, eof, rd, errbuf, data, written, sleeps, client,
                   cancels>>

\* line 41, the rest of response.write: wait until the transport has room;
\* a connection lost meanwhile raises ConnectionResetError
Drain(r) ==
    /\ pc[r] = "drain"
    /\ \E res \in {"ok"} \cup (IF client[r] = "reset"
                               THEN {"ConnectionResetError"} ELSE {}) :
         IF res = "ok"
         THEN /\ pc' = Upd(pc, r, "sleep")
              /\ UNCHANGED <<interrupted, loopExit, killed, pending, outcome>>
         ELSE CatchReset(r)
    /\ UNCHANGED <<key, reason, prepared, headers, proc, status, blocked,
                   produced, nwrites, eof, rd, errbuf, data, written, sleeps,
                   client, cancels>>

\* line 43: await asyncio.sleep(delay) is over
Sleep(r) ==
    /\ pc[r] = "sleep"
    /\ sleeps' = Upd(sleeps, r, sleeps[r] + 1)
    /\ pc' = Upd(pc, r, "loop")
    /\ UNCHANGED <<key, outcome, reason, pending, loopExit, interrupted,
                   prepared, headers, proc, killed, status, blocked, produced,
                   nwrites, eof, rd, errbuf, data, written, client, cancels>>

\* line 51: await process.communicate() returns once stdout and stderr have
\* been read to their end and the child has been waited for; then the
\* handler returns the response (line 53) or the pending exception goes on
Communicate(r) ==
    /\ pc[r] = "communicate"
    /\ eof[r]
    /\ proc[r] = "reaped"
    /\ errbuf' = Upd(errbuf, r, 0)
    /\ Finish(r, pending[r])
    /\ UNCHANGED <<key, reason, pending, loopExit, interrupted, prepared,
                   headers, proc, killed, status, blocked, produced, nwrites,
                   eof, rd, data, written, sleeps, client, cancels>>

\* the awaits at which a task can be cancelled
CancelPoints == {"prepare", "spawn", "read", "drain", "sleep", "communicate"}

\* the framework cancels the task: CancelledError is raised at the await the
\* handler is suspended in.  Inside the try block the finally block runs;
\* at communicate, already inside the finally block, the handler is left.
\* asyncio itself stops a child whose creation is cancelled.
Cancel(r) ==
    /\ pc[r] \in CancelPoints
    /\ cancels[r] < MaxCancels
    /\ cancels' = Upd(cancels, r, cancels[r] + 1)
    /\ IF pc[r] \in {"read", "drain", "sleep"}
       THEN /\ loopExit' = Upd(loopExit, r, "cancel")
            /\ Finally(r, "CancelledError")
       ELSE /\ Finish(r, "CancelledError")
            /\ UNCHANGED <<loopExit, killed, pending>>
    /\ UNCHANGED <<key, reason, interrupted, prepared, headers, proc, status,
                   blocked, produced, nwrites, eof, rd, errbuf, data, written,
                   sleeps, client>>

\* one step of the handler of request r
HandlerStep(r) ==
    \/ Locate(r)
    \/ Prepare(r)
    \/ Spawn(r)
    \/ LoopCheck(r)
    \/ Read(r)
    \/ Write(r)
    \/ Drain(r)
    \/ Sleep(r)
    \/ Communicate(r)

(***************************************************************************)
(* The environment: the zip subprocess ("zip -r - ." in the directory),    *)
(* the operating system, the event loop's child watcher and the client.    *)
(***************************************************************************)
\* zip can take a step: it runs and is not stuck on its stderr
ZipRuns(r) == proc[r] = "running" /\ ~blocked[r]

\* zip writes n bytes of the archive to stdout
ZipWrite(r, n) ==
    /\ ZipRuns(r)
    /\ ~eof[r]
    /\ nwrites[r] < MaxWrites
    /\ produced' = Upd(produced, r, produced[r] + n)
    /\ nwrites' = Upd(nwrites, r, nwrites[r] + 1)
    /\ UNCHANGED <<key, pc, outcome, reason, pending, loopExit, interrupted,
                   prepared, headers, proc, killed, status, blocked, eof, rd,
                   errbuf, data, written, sleeps, client, cancels>>

\* zip writes a diagnostic to stderr (stderr=PIPE, line 33), which nobody
\* reads while the relay runs: once the pipe is full the write blocks
ZipDiag(r) ==
    /\ ZipRuns(r)
    /\ IF errbuf[r] < StderrCap
       THEN /\ errbuf' = Upd(errbuf, r, errbuf[r] + 1)
            /\ UNCHANGED blocked
       ELSE /\ blocked' = Upd(blocked, r, TRUE)
            /\ UNCHANGED errbuf
    /\ UNCHANGED <<key, pc, outcome, reason, pending, loopExit, interrupted,
                   prepared, headers, proc, killed, status, produced, nwrites,
                   eof, rd, data, written, sleeps, client, cancels>>

\* zip closes its stdout: process.stdout is fed end-of-file
ZipClose(r) ==
    /\ ZipRuns(r)
    /\ ~eof[r]
    /\ eof' = Upd(eof, r, TRUE)
    /\ UNCHANGED <<key, pc, outcome, reason, pending, loopExit, interrupted,
                   prepared, headers, proc, killed, status, blocked, produced,
                   nwrites, rd, errbuf, data, written, sleeps, client, cancels>>

\* zip exits with a status; its pipes close
ZipExit(r, code) ==
    /\ ZipRuns(r)
    /\ proc' = Upd(proc, r, "exited")
    /\ status' = Upd(status, r, code)
    /\ eof' = Upd(eof, r, TRUE)
    /\ UNCHANGED <<key, pc, outcome, reason, pending, loopExit, interrupted,
                   prepared, headers, killed, blocked, produced, nwrites, rd,
                   errbuf, data, written, sleeps, client, cancels>>

\* the kill signal sent by process.kill() ends the child, blocked or not
ProcDie(r) ==
    /\ proc[r] = "running"
    /\ killed[r]
    /\ proc' = Upd(proc, r, "exited")
    /\ status' = Upd(status, r, KilledStatus)
    /\ eof' = Upd(eof, r, TRUE)
    /\ UNCHANGED <<key, pc, outcome, reason, pending, loopExit, interrupted,
                   prepared, headers, killed, blocked, produced, nwrites, rd,
                   errbuf, data, written, sleeps, client, cancels>>

\* the event loop's child watcher waits for the exited child and sets
\* process.returncode
ChildWatcher(r) ==
    /\ proc[r] = "exited"
    /\ proc' = Upd(proc, r, "reaped")
    /\ UNCHANGED <<key, pc, outcome, reason, pending, loopExit, interrupted,
                   prepared, headers, killed, status, blocked, produced,
                   nwrites, eof, rd, errbuf, data, written, sleeps, client,
                   cancels>>

\* the peer resets the connection of a request in flight
ClientReset(r) ==
    /\ pc[r] \notin {"start", "done"}
    /\ client[r] = "open"
    /\ client' = Upd(client, r, "reset")
    /\ UNCHANGED <<key, pc, outcome, reason, pending, loopExit, interrupted,
                   prepared, headers, proc, killed, status, blocked, produced,
                   nwrites, eof, rd, errbuf, data, written, sleeps, cancels>>

Next ==
    \/ \E r \in Requests : Locate(r)
    \/ \E r \in Requests : Prepare(r)
    \/ \E r \in Requests : Spawn(r)
    \/ \E r \in Requests : LoopCheck(r)
    \/ \E r \in Requests : Read(r)
    \/ \E r \in Requests : Write(r)
    \/ \E r \in Requests : Drain(r)
    \/ \E r \in Requests : Sleep(r)
    \/ \E r \in Requests : Communicate(r)
    \/ \E r \in Requests : Cancel(r)
    \/ \E r \in Requests : \E n \in WriteSizes : ZipWrite(r, n)
    \/ \E r \in Requests : ZipDiag(r)
    \/ \E r \in Requests : ZipClose(r)
    \/ \E r \in Requests : \E code \in ExitCodes : ZipExit(r, code)
    \/ \E r \in Requests : ProcDie(r)
    \/ \E r \in Requests : ChildWatcher(r)
    \/ \E r \in Requests : ClientReset(r)

Spec == Init /\ [][Next]_vars

(***************************************************************************)
(* Fair scheduling: the event loop runs every task that can run, the       *)
(* operating system delivers the kill signal, the child watcher collects   *)
(* exited children, and a zip that is not stuck goes on to its exit.       *)
(***************************************************************************)
Fairness ==
    \A r \in Single :
        /\ WF_vars(HandlerStep(r))
        /\ WF_vars(ProcDie(r))
        /\ WF_vars(ChildWatcher(r))
        /\ WF_vars(\E code \in ExitCodes : ZipExit(r, code))

FairSpec == Spec /\ Fairness

(***************************************************************************)
(* Several requests in flight: web.run_app serves every request in a task  *)
(* of its own on one event loop, so two handlers interleave at their       *)
(* awaits.  Both requests name existing or missing archives and each zip   *)
(* writes its archive in pieces of one byte.                               *)
(***************************************************************************)
\* number of pieces a zip writes when several requests are in flight
MultiWrites == 1

\* the requests in flight at once
Pair == {"r1", "r2"}

MultiKeys == {"abc123", "missing"}

InitMulti == InitWith(Pair) /\ key \in [Pair -> MultiKeys]

\* a delay that keeps the thread of the event loop: time.sleep(delay)
HoldsLoopInSleep(r) == pc[r] = "sleep"

\* the handler of r keeps the thread of the event loop while it waits:
\* never, since each wait of the handler is an await (lines 26, 28, 38, 40,
\* 43, 51) and await asyncio.sleep(delay) suspends only the task of r
HoldsLoop(r) == FALSE

\* the event loop can run the task or a callback of r
Scheduled(r) == \A q \in Requests \ {r} : ~HoldsLoop(q)

\* one step of the handler of r on the shared event loop
RunHandler(r) == Scheduled(r) /\ HandlerStep(r)

ZipWritePiece(r) == nwrites[r] < MultiWrites /\ ZipWrite(r, 1)

NextMulti ==
    \/ \E r \in Requests : Scheduled(r) /\ Locate(r)
    \/ \E r \in Requests : Scheduled(r) /\ Prepare(r)
    \/ \E r \in Requests : Scheduled(r) /\ Spawn(r)
    \/ \E r \in Requests : Scheduled(r) /\ LoopCheck(r)
    \/ \E r \in Requests : Scheduled(r) /\ Read(r)
    \/ \E r \in Requests : Scheduled(r) /\ Write(r)
    \/ \E r \in Requests : Scheduled(r) /\ Drain(r)
    \/ \E r \in Requests : Scheduled(r) /\ Sleep(r)
    \/ \E r \in Requests : Scheduled(r) /\ Communicate(r)
    \/ \E r \in Requests : Scheduled(r) /\ Cancel(r)
    \/ \E r \in Requests : Scheduled(r) /\ ChildWatcher(r)
    \/ \E r \in Requests : ZipWritePiece(r)
    \/ \E r \in Requests : ZipExit(r, 0)
    \/ \E r \in Requests : ProcDie(r)
    \/ \E r \in Requests : ClientReset(r)

SpecMulti == InitMulti /\ [][NextMulti]_vars

(***************************************************************************)
(* Properties.                                                             *)
(***************************************************************************)
\* the handler of r has returned or raised
Finished(r) == pc[r] = "done"

\* the handler of r started a subprocess
Spawned(r) == proc[r] # "none"

\* C1: a handler that has returned or raised owns no subprocess that is
\* still running or that is an unreaped zombie, however its relay loop ended.
C1_NoSessionOutlivesHandler ==
    \A r \in Requests :
        Finished(r) /\ Spawned(r) => proc[r] = "reaped"

\* C2: when the framework has cancelled the task of a request, in the relay
\* or already inside the cleanup step, the cleanup has run to its end once
\* the handler is left: the subprocess has been killed if it had not exited,
\* and it has been reaped.
C2_CancelledStillCleansUp ==
    \A r \in Requests :
        Finished(r) /\ Spawned(r) /\ cancels[r] > 0
            => /\ proc[r] = "reaped"
               /\ status[r] = KilledStatus => killed[r]

\* the key of r names no directory of the file system under the archive root
DirectoryMissing(r) == Resolve(Join(PhotoDir, key[r])) \notin ExistingDirs

Contiguous(w) ==
    \A i \in 1..Len(w) :
        w[i].off = IF i = 1 THEN 0 ELSE w[i - 1].off + w[i - 1].len

\* C4: the chunks written so far, concatenated, are a prefix of what zip has
\* produced on stdout; after a loop that ended by end-of-stream they are
\* all of it.
C4_WrittenIsPrefixOfProduced ==
    \A r \in Requests :
        /\ Contiguous(written[r])
        /\ WrittenEnd(written[r]) <= produced[r]
        /\ loopExit[r] = "eof" => WrittenEnd(written[r]) = produced[r]

\* C4 witness: a transfer of more than one chunk has ended by end-of-stream.
C4_Witness ==
    \E r \in Requests :
        /\ loopExit[r] = "eof"
        /\ Finished(r)
        /\ Len(written[r]) >= 2
        /\ produced[r] > ChunkSize
        /\ WrittenEnd(written[r]) = produced[r]

\* C5: after a write failed with a connection reset the handler is past the
\* relay loop, it ends by returning the response, and by then the
\* subprocess has been reaped.
C5_ResetEndsTransferQuietly ==
    \A r \in Requests :
        interrupted[r]
            => /\ pc[r] \in {"communicate", "done"}
               /\ Finished(r) => outcome[r] = "returned" /\ proc[r] = "reaped"

\* C6: an error of the read/write cycle other than a connection reset
\* leaves the handler unchanged, after the subprocess has been reaped.
C6_OtherErrorPropagates ==
    \A r \in Requests :
        Finished(r) /\ loopExit[r] \in {"error", "cancel"}
            => /\ outcome[r] = IF loopExit[r] = "error"
                               THEN "OtherError" ELSE "CancelledError"
               /\ proc[r] = "reaped"

\* C7: when zip cannot be launched, no status line or headers have been
\* sent for the request.
C7_LaunchFailureSendsNoHeaders ==
    \A r \in Requests :
        outcome[r] = "LaunchError" => ~prepared[r]

\* C8: every write to the response happens on a response that has been
\* prepared, with the Content-Disposition header, before the write.
C8_PreparedBeforeWrite ==
    [][\A r \in Single :
          written'[r] # written[r]
              => prepared[r] /\ headers[r] = ContentDisposition]_vars

\* C8 witness: a chunk has been written to a prepared response.
C8_Witness ==
    \E r \in Requests :
        /\ written[r] # <<>>
        /\ written[r][1].len > 0
        /\ prepared[r]

\* the transfer of r is not a normal one: the client is gone, the task was
\* cancelled, a read or write failed, or zip is stuck before closing stdout
Disturbed(r) ==
    \/ client[r] = "reset"
    \/ cancels[r] > 0
    \/ loopExit[r] = "error"
    \/ blocked[r]

\* C9: under fair scheduling a request whose subprocess was started ends
\* with the handler returning the response after end-of-stream, unless the
\* transfer is disturbed.
C9_NormalTransferReturns ==
    \A r \in Single :
        (pc[r] = "loop")
            ~> ((Finished(r) /\ outcome[r] = "returned" /\ loopExit[r] = "eof")
                \/ Disturbed(r))

\* C9 witness: an undisturbed transfer with data has returned the response.
C9_Witness ==
    \E r \in Requests :
        /\ Finished(r)
        /\ outcome[r] = "returned"
        /\ loopExit[r] = "eof"
        /\ ~Disturbed(r)
        /\ produced[r] > 0

\* C10: once the client has closed the connection after its first chunk,
\* the handler ends and the subprocess is reaped, whatever zip is doing.
C10_DisconnectStopsSubprocess ==
    \A r \in Single :
        (client[r] = "reset" /\ Len(written[r]) >= 1)
            ~> (Finished(r) /\ proc[r] = "reaped")

\* the state of request r and of its subprocess, pipes and response
Local(r) ==
    <<key[r], pc[r], outcome[r], reason[r], pending[r], loopExit[r],
      interrupted[r], prepared[r], headers[r], proc[r], killed[r], status[r],
      blocked[r], produced[r], nwrites[r], eof[r], rd[r], errbuf[r], data[r],
      written[r], sleeps[r], client[r], cancels[r]>>

\* C11: with two requests in flight, every step (of a handler, of a
\* subprocess, a disconnect, a cancellation, a cleanup) belongs to one
\* request and leaves the other request's handler, subprocess, stream
\* position and response as they were, under every interleaving
C11_StepTouchesOneRequest ==
    [][\E r \in Pair : \A q \in Pair \ {r} : Local(q)' = Local(q)]_vars

\* C11 witness: r2 was disconnected, has killed and reaped its subprocess
\* and has finished, while r1's subprocess runs on unkilled and r1 waits in
\* its delay after its first chunk
C11_Witness ==
    /\ interrupted["r2"] /\ Finished("r2")
    /\ killed["r2"] /\ proc["r2"] = "reaped"
    /\ proc["r1"] = "running" /\ ~killed["r1"]
    /\ pc["r1"] = "sleep" /\ Len(written["r1"]) = 1
    /\ client["r1"] = "open"

\* C12: while a request a is inside its delay, the event loop runs the
\* handler of any other request b exactly when b's own next step is ready
\* (its read has data or end-of-file, its write or cleanup can go on), and
\* that step leaves a inside the same delay
C12_DelayDoesNotBlockOthers ==
    /\ [](\A a \in Pair : \A b \in Pair \ {a} :
            pc[a] = "sleep"
                => (ENABLED RunHandler(b) <=> ENABLED HandlerStep(b)))
    /\ [][\A a \in Pair : \A b \in Pair \ {a} :
            pc[a] = "sleep" /\ RunHandler(b)
                => pc'[a] = "sleep" /\ sleeps'[a] = sleeps[a]]_vars

\* C12 witness: r1 is inside its first delay and r2 has relayed a chunk,
\* reached end-of-file and returned its response
C12_Witness ==
    /\ pc["r1"] = "sleep" /\ sleeps["r1"] = 0
    /\ Finished("r2") /\ outcome["r2"] = "returned"
    /\ loopExit["r2"] = "eof" /\ Len(written["r2"]) >= 1


\* the configured archive root, resolved
ArchiveRoot == Resolve(PhotoDir)

\* directory dir is the archive root or lies below it
InsideRoot(dir) ==
    /\ Len(dir) >= Len(ArchiveRoot)
    /\ SubSeq(dir, 1, Len(ArchiveRoot)) = ArchiveRoot

\* C13: whatever key a request carries, the directory zip is started in
\* (cwd=path_to_photos) lies inside the archive root.
C13_CompressedDirInsideRoot ==
    \A r \in Requests :
        Spawned(r) => InsideRoot(Resolve(PathToPhotos(r)))

\* the state of the compression session of r in the lifecycle
\* Created -> Running -> (Completed | Killed); create_subprocess_exec
\* returns a child that is already running
Lifecycle(r) ==
    CASE proc[r] = "none" -> "None"
      [] proc[r] = "running" -> "Running"
      [] status[r] = KilledStatus -> "Killed"
      [] OTHER -> "Completed"

\* the transitions of the lifecycle
LifecycleSteps ==
    {<<"None", "Running">>, <<"Running", "Completed">>, <<"Running", "Killed">>}

\* the step calls process.kill() for r
KillIssued(r) == killed'[r] /\ ~killed[r]

\* the session of r changes state along the lifecycle only, and ends Killed
\* only after a kill
LifecycleStep(r) ==
    /\ Lifecycle(r)' # Lifecycle(r)
           => <<Lifecycle(r), Lifecycle(r)'>> \in LifecycleSteps
    /\ Lifecycle(r)' = "Killed" /\ Lifecycle(r) # "Killed" => killed[r]

\* C14 as stated: the lifecycle is followed; kill is issued only once the
\* relay loop has been left, only for a process that has not exited, and
\* is followed at once by the reap of that process.
C14_KillOnlyWhileRunning ==
    [][\A r \in Single :
          /\ LifecycleStep(r)
          /\ KillIssued(r)
                => /\ loopExit'[r] # "none"
                   /\ proc[r] = "running"
                   /\ pc'[r] = "communicate"]_vars

\* C14 amended: the lifecycle is followed; kill is issued only once the
\* relay loop has been left and only while process.returncode is None, that
\* is for a process whose exit the event loop has not seen, be it running
\* or already exited; the reap starts at once and the process ends reaped.
C14_KillOnlyWhileReturnCodeIsNone ==
    /\ [][\A r \in Single :
             /\ LifecycleStep(r)
             /\ KillIssued(r)
                   => /\ loopExit'[r] # "none"
                      /\ proc[r] \in {"running", "exited"}
                      /\ pc'[r] = "communicate"]_vars
    /\ \A r \in Single : killed[r] ~> (proc[r] = "reaped")

\* C14 witness: a session that was killed while running has been reaped.
C14_Witness ==
    \E r \in Requests :
        /\ killed[r]
        /\ Lifecycle(r) = "Killed"
        /\ proc[r] = "reaped"
        /\ Finished(r)

\* the order of the steps of one relay iteration, and the ways out of it
RelayOrder ==
    {<<"loop", "read">>, <<"read", "write">>, <<"write", "drain">>,
     <<"drain", "sleep">>, <<"sleep", "loop">>}
        \cup ({"loop", "read", "write", "drain", "sleep"}
                  \X {"communicate", "done"})

\* C15: an iteration runs end-of-stream check, read, write, delay in this
\* order; every write is followed by exactly one delay before the next
\* end-of-stream check, so delays and writes are counted alike at every
\* check and after a transfer that ended by end-of-stream.
C15_OneDelayPerWrite ==
    /\ [](\A r \in Single :
             /\ pc[r] \in {"loop", "read", "write"}
                   => sleeps[r] = Len(written[r])
             /\ pc[r] \in {"drain", "sleep"}
                   => Len(written[r]) = sleeps[r] + 1
             /\ loopExit[r] = "eof" => sleeps[r] = Len(written[r]))
    /\ [][\A r \in Single :
             pc[r] \in {"loop", "read", "write", "drain", "sleep"}
                 /\ pc'[r] # pc[r]
             => <<pc[r], pc'[r]>> \in RelayOrder]_vars

\* C15 witness: a transfer of two chunks has ended by end-of-stream after
\* two delays, the second one after the final chunk.
C15_Witness ==
    \E r \in Requests :
        /\ loopExit[r] = "eof"
        /\ Len(written[r]) = 2
        /\ sleeps[r] = 2
        /\ written[r][2].len > 0

\* C16: every chunk written is at most 100 KiB long and is the data of
\* exactly one read: what has been read has been written, chunk by chunk,
\* but for the chunk in hand between a read and its write.
C16_ChunkIsOneBoundedRead ==
    \A r \in Requests :
        /\ \A i \in 1..Len(written[r]) :
               written[r][i].len >= 0 /\ written[r][i].len <= 102400
        /\ pc[r] \in {"drain", "sleep"}
               => written[r][Len(written[r])] = data[r]
        /\ pc[r] = "write"
               => /\ data[r].off = WrittenEnd(written[r])
                  /\ data[r].off + data[r].len = rd[r]
                  /\ data[r].len <= 102400
        /\ pc[r] \in {"loop", "read", "drain", "sleep"}
               => WrittenEnd(written[r]) = rd[r]

\* C16 witness: a short read of one byte was forwarded as a chunk of its
\* own while zip had not closed stdout, ahead of a full chunk.
C16_Witness ==
    \E r \in Requests :
        /\ Len(written[r]) = 2
        /\ written[r][1].len = 1
        /\ written[r][2].len = 102400

\* C17: a request whose relay loop ended by end-of-stream ends with the
\* handler returning the response, whatever the exit status of zip is and
\* whether or not it has been seen; the only error it can end with is the
\* cancellation of its task, never one made from the exit status.
C17_ExitStatusIsIgnored ==
    \A r \in Requests :
        Finished(r) /\ loopExit[r] = "eof"
            => \/ outcome[r] = "returned"
               \/ outcome[r] = "CancelledError" /\ cancels[r] > 0

\* C17 witness: zip exited with status 12 after closing stdout, and the
\* handler returned the response.
C17_Witness ==
    \E r \in Requests :
        /\ Finished(r)
        /\ loopExit[r] = "eof"
        /\ proc[r] = "reaped"
        /\ status[r] = 12
        /\ outcome[r] = "returned"

\* zip is blocked on its full stderr pipe with stdout open, and the relay
\* has read all that zip produced and is suspended in its next read
Stalled(r) ==
    /\ blocked[r]
    /\ ~eof[r]
    /\ pc[r] = "read"
    /\ Buffered(r) = 0

\* the relay loop of r is running
InRelay(r) == pc[r] \in {"loop", "read", "write", "drain", "sleep"}

\* C18: stderr is emptied only by the reap after a kill, never while the
\* relay runs; a zip that blocks on its full stderr pipe before closing
\* stdout leaves the relay suspended in its read, where the handler has no
\* step to take and stays until its task is cancelled from outside.
C18_StderrIsNeverDrainedByRelay ==
    /\ [][\A r \in Single :
             errbuf'[r] < errbuf[r] \/ (blocked[r] /\ ~blocked'[r])
                 => pc[r] = "communicate" /\ killed[r]]_vars
    /\ [](\A r \in Single : Stalled(r) => ~ENABLED HandlerStep(r))
    /\ [][\A r \in Single :
             Stalled(r) /\ cancels'[r] = cancels[r] => Stalled(r)']_vars
    /\ \A r \in Single :
           (blocked[r] /\ ~eof[r] /\ InRelay(r))
               ~> (Stalled(r) \/ ~InRelay(r))

\* C18 witness: zip is blocked on stderr after a first chunk went out, and
\* the relay waits in its read.
C18_Witness ==
    \E r \in Requests :
        /\ Stalled(r)
        /\ errbuf[r] = StderrCap
        /\ Len(written[r]) >= 1
        /\ cancels[r] = 0

\* C19 as stated: every chunk written to the response holds at least one
\* byte.
C19_NoEmptyChunk ==
    \A r \in Requests :
        \A i \in 1..Len(written[r]) : written[r][i].len > 0

\* C19 amended: only the last chunk written can be empty, and only when
\* stdout has reached end-of-file with everything read: it is the result
\* of the read in which the relay met the end-of-file.  No chunk follows
\* it, and none is written once at_eof() has been seen true.
C19_OnlyLastChunkAtEofIsEmpty ==
    \A r \in Requests :
        /\ \A i \in 1..Len(written[r]) :
               written[r][i].len = 0
                   => /\ i = Len(written[r])
                      /\ eof[r]
                      /\ rd[r] = produced[r]
        /\ pc[r] = "write" /\ written[r] # <<>>
               => written[r][Len(written[r])].len > 0

\* C19 witness: a transfer ended by end-of-stream with an empty chunk
\* written after a chunk of data.
C19_Witness ==
    \E r \in Requests :
        /\ loopExit[r] = "eof"
        /\ Len(written[r]) = 2
        /\ written[r][1].len > 0
        /\ written[r][2].len = 0

\* the requests whose subprocess is running
RunningSubprocesses == {r \in Requests : proc[r] = "running"}

\* the requests whose handler has not returned or raised yet
InFlight == {r \in Requests : ~Finished(r)}

\* C20: a subprocess exists only for a request whose directory was found
\* and whose response was prepared, and there are never more running
\* subprocesses than requests in flight.
C20_SubprocessesWithinRequestsInFlight ==
    /\ \A r \in Requests :
           Spawned(r) => prepared[r] /\ ~DirectoryMissing(r)
    /\ Cardinality(RunningSubprocesses) <= Cardinality(InFlight)

=============================================================================
